---- MODULE Spec2Model ----
(***************************************************************************)
(* Model of kancli.py: the record building of get_instances_dict_list and  *)
(* the four click commands get-instances, start-instance, stop-instance    *)
(* and terminate-instance.                                                 *)
(*                                                                         *)
(* Python values are tagged: None is <<"none">>, a str s is <<"str", s>>,  *)
(* a list l is <<"list", l>>, a raised exception e is <<"raise", e>>.      *)
(* A dict is a function whose DOMAIN is the set of keys it carries.        *)
(* A text (str(ex), a logged error line) is a sequence of tokens, each a   *)
(* single character or a word holding neither ':' nor whitespace.          *)
(***************************************************************************)
EXTENDS Integers, Sequences, FiniteSets, TLC

VARIABLES
    Reservations,        \* what the provider holds: describe_instances()["Reservations"]
    region_name,         \* ec2_client.meta.region_name
    provider_error,      \* text of the error every provider call raises, or NoError
    pc,                  \* "idle" before the command runs, "done" after it returned
    cmd,                 \* the command that ran
    instance_id,         \* its --instance-id option
    calls,               \* provider calls issued, in order
    log,                 \* logger calls, in order
    table_data,          \* rows handed to tabulate
    escaped,             \* an exception left the command
    exists_result,       \* outcome of the existence validation
    instance_data_dict_list, \* what the inventory fetch returned or raised
    raw_instance,        \* input of one record building
    instance_data_dict,  \* its outcome
    npc                  \* "input" before the record building, "built" after

vars == <<Reservations, region_name, provider_error, pc, cmd, instance_id, calls,
          log, table_data, escaped, exists_result, instance_data_dict_list,
          raw_instance, instance_data_dict, npc>>

(* ------------------------------ bounds --------------------------------- *)

\* Reservations in one provider response.
MaxReservations == 2
\* Raw instances in one provider response, over all its reservations.
MaxInstances == 3
\* Entries in the NetworkInterfaces list of a raw instance.
MaxInterfaces == 2

(* --------------------------- Python values ----------------------------- *)

None == <<"none">>
Str(s) == <<"str", s>>
List(l) == <<"list", l>>
EmptyDict == [k \in {} |-> None]

\* The outcome of a call: the value it returns or the exception it raises.
Return(v) == [raise |-> FALSE, value |-> v]
Raise(e) == [raise |-> TRUE, ex |-> e]

KeyError(key) == [type |-> "KeyError", str |-> <<"'", key, "'">>]
ClientError(text) == [type |-> "ClientError", str |-> text]

(* ----------------------------- kancli.py ------------------------------- *)

get_instance_value_by_key(instance, key) ==
    IF key \in DOMAIN instance THEN instance[key] ELSE None

\* Variant: only "running" counts as a state without a reason.
get_instance_state_reason_running_only(instance) ==
    LET state_name == instance["State"]["Name"] IN
    IF state_name # Str("running")
    THEN IF "StateReason" \notin DOMAIN instance
         THEN Raise(KeyError("StateReason"))
         ELSE IF "Message" \notin DOMAIN instance["StateReason"]
              THEN Raise(KeyError("Message"))
              ELSE Return(instance["StateReason"]["Message"])
    ELSE Return(None)

get_instance_state_reason(instance) ==
    LET state_name == instance["State"]["Name"] IN
    IF state_name # Str("running") /\ state_name # Str("pending")
    THEN IF "StateReason" \notin DOMAIN instance
         THEN Raise(KeyError("StateReason"))
         ELSE IF "Message" \notin DOMAIN instance["StateReason"]
              THEN Raise(KeyError("Message"))
              ELSE Return(instance["StateReason"]["Message"])
    ELSE Return(None)

\* Variant: the last interface is read instead of the first.
get_instance_mac_address_last(instance) ==
    IF "NetworkInterfaces" \notin DOMAIN instance
    THEN Raise(KeyError("NetworkInterfaces"))
    ELSE LET interfaces == instance["NetworkInterfaces"][2] IN
         IF Len(interfaces) > 0
         THEN IF "MacAddress" \notin DOMAIN interfaces[Len(interfaces)]
              THEN Raise(KeyError("MacAddress"))
              ELSE Return(interfaces[Len(interfaces)]["MacAddress"])
         ELSE Return(None)

get_instance_mac_address(instance) ==
    IF "NetworkInterfaces" \notin DOMAIN instance
    THEN Raise(KeyError("NetworkInterfaces"))
    ELSE IF Len(instance["NetworkInterfaces"][2]) > 0
         THEN IF "MacAddress" \notin DOMAIN instance["NetworkInterfaces"][2][1]
              THEN Raise(KeyError("MacAddress"))
              ELSE Return(instance["NetworkInterfaces"][2][1]["MacAddress"])
         ELSE Return(None)

get_instance_network_interface_id(instance) ==
    IF "NetworkInterfaces" \notin DOMAIN instance
    THEN Raise(KeyError("NetworkInterfaces"))
    ELSE IF Len(instance["NetworkInterfaces"][2]) > 0
         THEN IF "NetworkInterfaceId" \notin DOMAIN instance["NetworkInterfaces"][2][1]
              THEN Raise(KeyError("NetworkInterfaceId"))
              ELSE Return(instance["NetworkInterfaces"][2][1]["NetworkInterfaceId"])
         ELSE Return(None)

\* Variant: a missing Tags key gives None, as the passthrough fields do.
get_instance_tags_none(instance) ==
    IF "Tags" \in DOMAIN instance THEN instance["Tags"] ELSE None

get_instance_tags(instance) ==
    IF "Tags" \in DOMAIN instance THEN instance["Tags"] ELSE List(<<>>)

fields_translation_dict ==
    << <<"Id", "InstanceId">>,
       <<"Type", "InstanceType">>,
       <<"ImageId", "ImageId">>,
       <<"LaunchTime", "LaunchTime">>,
       <<"SubnetId", "SubnetId">>,
       <<"VpcId", "VpcId">>,
       <<"PrivateDnsName", "PrivateDnsName">>,
       <<"PrivateIpAddress", "PrivateIpAddress">>,
       <<"PublicDnsName", "PublicDnsName">>,
       <<"PublicIpAddress", "PublicIpAddress">>,
       <<"RootDeviceName", "RootDeviceName">>,
       <<"RootDeviceType", "RootDeviceType">>,
       <<"SecurityGroups", "SecurityGroups">> >>

\* Variant: only the keys the raw instance carries are set.
translated_fields_present_only(instance) ==
    [key \in {fields_translation_dict[i][1] : i \in
                 {j \in DOMAIN fields_translation_dict :
                     fields_translation_dict[j][2] \in DOMAIN instance}} |->
        LET i == CHOOSE j \in DOMAIN fields_translation_dict :
                     fields_translation_dict[j][1] = key
        IN instance[fields_translation_dict[i][2]]]

\* The loop over fields_translation_dict.items(): every key of the table is
\* set, to the raw value under its translated key or to None.
translated_fields(instance) ==
    [key \in {fields_translation_dict[i][1] : i \in DOMAIN fields_translation_dict} |->
        LET i == CHOOSE j \in DOMAIN fields_translation_dict :
                     fields_translation_dict[j][1] = key
        IN get_instance_value_by_key(instance, fields_translation_dict[i][2])]

\* The body of the second loop of get_instances_dict_list: one raw instance
\* to one record, or the exception the building raises.
build_instance_data_dict(instance, region) ==
    LET StateReason == get_instance_state_reason(instance)
        MacAddress == get_instance_mac_address(instance)
        NetworkInterfaceId == get_instance_network_interface_id(instance)
    IN IF StateReason.raise THEN StateReason
       ELSE IF MacAddress.raise THEN MacAddress
       ELSE IF NetworkInterfaceId.raise THEN NetworkInterfaceId
       ELSE Return(("Cloud" :> Str("aws"))
                   @@ ("Region" :> Str(region))
                   @@ ("State" :> instance["State"]["Name"])
                   @@ translated_fields(instance)
                   @@ ("StateReason" :> StateReason.value)
                   @@ ("MacAddress" :> MacAddress.value)
                   @@ ("NetworkInterfaceId" :> NetworkInterfaceId.value)
                   @@ ("Tags" :> get_instance_tags(instance)))

\* The provider: every call raises when the client carries an error.
NoError == <<>>

describe_instances(ec2_client) ==
    IF ec2_client.error # NoError
    THEN Raise(ClientError(ec2_client.error))
    ELSE Return([Reservations |-> ec2_client.Reservations])

\* Variant: each reservation's instances are put in front of the list.
RECURSIVE instances_list_reversed(_)
instances_list_reversed(reservations) ==
    IF reservations = <<>> THEN <<>>
    ELSE instances_list_reversed(Tail(reservations)) \o Head(reservations)["Instances"][2]

\* The first loop of get_instances_dict_list: reservations flattened in order.
RECURSIVE instances_list(_)
instances_list(reservations) ==
    IF reservations = <<>> THEN <<>>
    ELSE Head(reservations)["Instances"][2] \o instances_list(Tail(reservations))

\* The second loop: records appended in order, the first exception ends it.
RECURSIVE build_instance_data_dict_list(_, _)
build_instance_data_dict_list(instances, region) ==
    IF instances = <<>> THEN Return(List(<<>>))
    ELSE LET first == build_instance_data_dict(Head(instances), region) IN
         IF first.raise THEN first
         ELSE LET rest == build_instance_data_dict_list(Tail(instances), region) IN
              IF rest.raise THEN rest
              ELSE Return(List(<<first.value>> \o rest.value[2]))

describe_call == [op |-> "describe_instances", InstanceIds |-> <<>>]

\* calls: the provider calls the fetch issues; ret: the list it returns or
\* the exception it raises.
get_instances_dict_list(ec2_client) ==
    LET my_instances == describe_instances(ec2_client) IN
    [calls |-> <<describe_call>>,
     ret |-> IF my_instances.raise
             THEN my_instances
             ELSE build_instance_data_dict_list(
                      instances_list(my_instances.value["Reservations"][2]),
                      ec2_client.region_name)]

\* str(ex).split(':', 1)[-1].lstrip()
Whitespace == {" ", "\t", "\n", "\r", "\f"}

RECURSIVE lstrip(_)
lstrip(text) ==
    IF text # <<>> /\ Head(text) \in Whitespace THEN lstrip(Tail(text)) ELSE text

split_last(text) ==
    IF \E i \in DOMAIN text : text[i] = ":"
    THEN LET i == CHOOSE j \in DOMAIN text :
                      /\ text[j] = ":"
                      /\ \A k \in 1..(j - 1) : text[k] # ":"
         IN SubSeq(text, i + 1, Len(text))
    ELSE text

get_exception_error(ex) == lstrip(split_last(ex.str))

\* Logger calls: an info message is <<subject, suffix>>, an error message a text.
info(subject, suffix) == [level |-> "info", msg |-> <<subject, suffix>>]
error(text) == [level |-> "error", msg |-> text]

\* Variant: "except ClientError", which lets a KeyError through.
except_ClientError(ex) == ex.type = "ClientError"

\* "except Exception" catches every exception the model raises.
except_Exception(ex) == ex.type \in {"KeyError", "ClientError"}

\* The try/except skeleton the four commands share: the logger calls of one
\* invocation, given the outcome of the try body and the messages the body
\* logs before "Finished Successfully".
command_log(name, outcome, body_infos) ==
    <<info(name, " - Started")>>
    \o IF ~outcome.raise
       THEN body_infos \o <<info(name, " - Finished Successfully")>>
       ELSE IF except_Exception(outcome.ex)
            THEN <<error(get_exception_error(outcome.ex)),
                   info(name, " - Finished with Error")>>
            ELSE <<>>

command_escaped(outcome) == outcome.raise /\ ~except_Exception(outcome.ex)

headers_list == <<"Id", "Region", "Type", "State", "PrivateIpAddress", "PublicIpAddress">>

\* The inner loop of get_instances: instance_dict[header] for each header.
instance_row(instance_dict) ==
    IF \E i \in DOMAIN headers_list : headers_list[i] \notin DOMAIN instance_dict
    THEN Raise(KeyError(headers_list[
             CHOOSE i \in DOMAIN headers_list :
                 /\ headers_list[i] \notin DOMAIN instance_dict
                 /\ \A j \in 1..(i - 1) : headers_list[j] \in DOMAIN instance_dict]))
    ELSE Return([i \in DOMAIN headers_list |-> instance_dict[headers_list[i]]])

RECURSIVE table_rows(_)
table_rows(dicts) ==
    IF dicts = <<>> THEN Return(<<>>)
    ELSE LET first == instance_row(Head(dicts)) IN
         IF first.raise THEN first
         ELSE LET rest == table_rows(Tail(dicts)) IN
              IF rest.raise THEN rest
              ELSE Return(<<first.value>> \o rest.value)

\* The client the commands receive in context.obj.
the_client ==
    [Reservations |-> Reservations, region_name |-> region_name,
     error |-> provider_error]

normalizer_idle == UNCHANGED <<raw_instance, instance_data_dict, npc>>

get_instances ==
    /\ pc = "idle"
    /\ LET fetch == get_instances_dict_list(the_client)
           outcome == IF fetch.ret.raise THEN fetch.ret
                      ELSE table_rows(fetch.ret.value[2])
       IN /\ calls' = fetch.calls
          /\ instance_data_dict_list' = fetch.ret
          /\ table_data' = IF outcome.raise THEN <<>> ELSE outcome.value
          /\ log' = command_log("get_instances()", outcome, <<>>)
          /\ escaped' = command_escaped(outcome)
    /\ pc' = "done"
    /\ cmd' = "get_instances"
    /\ UNCHANGED <<Reservations, region_name, provider_error, instance_id,
                   exists_result>>
    /\ normalizer_idle

\* start_instances / stop_instances / terminate_instances of the provider.
mutate_instances(ec2_client, InstanceIds) ==
    IF ec2_client.error # NoError
    THEN Raise(ClientError(ec2_client.error))
    ELSE Return(None)

\* Variant: the command polls the inventory after the mutation call.
mutating_calls_polling(op, id) ==
    <<[op |-> op, InstanceIds |-> <<id>>],
      [op |-> "describe_instances", InstanceIds |-> <<>>]>>

\* The provider calls a mutating command issues, in order.
mutating_calls(op, id) == <<[op |-> op, InstanceIds |-> <<id>>]>>

\* The body the three mutating commands share.
mutating_command(name, op, verb, id) ==
    /\ pc = "idle"
    /\ LET outcome == mutate_instances(the_client, <<id>>)
       IN /\ calls' = mutating_calls(op, id)
          /\ log' = command_log(name, outcome, <<info(id, verb)>>)
          /\ escaped' = command_escaped(outcome)
    /\ pc' = "done"
    /\ instance_id' = id
    /\ UNCHANGED <<Reservations, region_name, provider_error, table_data,
                   exists_result, instance_data_dict_list>>
    /\ normalizer_idle

start_instance(id) ==
    /\ mutating_command("start_instance()", "start_instances", " - Started", id)
    /\ cmd' = "start_instance"

stop_instance(id) ==
    /\ mutating_command("stop_instance()", "stop_instances", " - Stopped", id)
    /\ cmd' = "stop_instance"

terminate_instance(id) ==
    /\ mutating_command("terminate_instance()", "terminate_instances", " - Terminated", id)
    /\ cmd' = "terminate_instance"

\* Variant: the scan answers on the first record, matching or not.
scan_for_id_first_only(dicts, id) ==
    IF dicts = <<>> THEN FALSE
    ELSE Head(dicts)["Id"] = Str(id)

\* The existence validation: fetch the inventory, then scan it for the id.
RECURSIVE scan_for_id(_, _)
scan_for_id(dicts, id) ==
    IF dicts = <<>> THEN FALSE
    ELSE IF Head(dicts)["Id"] = Str(id) THEN TRUE
    ELSE scan_for_id(Tail(dicts), id)

exists(ec2_client, id) ==
    LET fetch == get_instances_dict_list(ec2_client) IN
    [calls |-> fetch.calls,
     fetched |-> fetch.ret,
     ret |-> IF fetch.ret.raise THEN fetch.ret
             ELSE Return(scan_for_id(fetch.ret.value[2], id))]

exists_validation(id) ==
    /\ pc = "idle"
    /\ LET validation == exists(the_client, id)
       IN /\ calls' = validation.calls
          /\ instance_data_dict_list' = validation.fetched
          /\ exists_result' = IF validation.ret.raise THEN "raised"
                              ELSE IF validation.ret.value THEN "true"
                              ELSE "false"
    /\ pc' = "done"
    /\ cmd' = "exists"
    /\ instance_id' = id
    /\ UNCHANGED <<Reservations, region_name, provider_error, log, table_data,
                   escaped>>
    /\ normalizer_idle

(* ------------------------------ inputs --------------------------------- *)

SeqsUpTo(S, n) == UNION {[1..k -> S] : k \in 0..n}

Regions == {"us-east-1", "eu-west-1"}

\* --instance-id values: one the inventory may hold, one it never holds.
RequestedIds == {"i-2", "i-9"}

\* str() of a provider failure.
AuthFailure ==
    <<"An", " ", "error", " ", "occurred", " ", "(", "AuthFailure", ")", ":",
      " ", "\t", "AWS", ":", " ", "denied">>

ProviderErrors == {NoError, AuthFailure}

eni_a == [MacAddress |-> Str("0a:01"), NetworkInterfaceId |-> Str("eni-a")]
eni_b == [MacAddress |-> Str("0a:02"), NetworkInterfaceId |-> Str("eni-b")]
eni_no_mac == [NetworkInterfaceId |-> Str("eni-c")]
eni_no_id == [MacAddress |-> Str("0a:04")]

Interfaces == {eni_a, eni_b, eni_no_mac, eni_no_id}

other_fields ==
    [key \in {"ImageId", "LaunchTime", "SubnetId", "VpcId", "PrivateDnsName",
              "PublicDnsName", "PublicIpAddress", "RootDeviceName",
              "RootDeviceType", "SecurityGroups"} |-> Str(key)]

\* The parts a raw instance is made of; EmptyDict is the part left out.
IdParts == {EmptyDict} \cup {"InstanceId" :> Str(i) : i \in {"i-1", "i-2"}}
StateParts == {"State" :> [Name |-> Str(n)] : n \in {"running", "pending", "stopped"}}
ReasonParts == {EmptyDict, "StateReason" :> [Message |-> Str("User initiated")]}
InterfaceParts ==
    {EmptyDict} \cup {"NetworkInterfaces" :> List(l) : l \in SeqsUpTo(Interfaces, MaxInterfaces)}
TagParts ==
    {EmptyDict, "Tags" :> List(<<>>),
     "Tags" :> List(<<[Key |-> "Name", Value |-> "web"]>>)}
TypeParts == {EmptyDict, "InstanceType" :> Str("t2.micro")}
AddressParts == {EmptyDict, "PrivateIpAddress" :> Str("10.0.0.5")}
OtherParts == {EmptyDict, other_fields}

RawInstances ==
    {id @@ st @@ sr @@ ni @@ tg @@ ty @@ ad @@ ot :
        id \in IdParts, st \in StateParts, sr \in ReasonParts,
        ni \in InterfaceParts, tg \in TagParts, ty \in TypeParts,
        ad \in AddressParts, ot \in OtherParts}

\* The raw instances the provider's inventory is drawn from.
inst_A ==
    ("InstanceId" :> Str("i-1")) @@ ("State" :> [Name |-> Str("running")])
    @@ ("StateReason" :> [Message |-> Str("User initiated")])
    @@ ("NetworkInterfaces" :> List(<<eni_a, eni_b>>))
    @@ ("Tags" :> List(<<[Key |-> "Name", Value |-> "web"]>>))
    @@ ("InstanceType" :> Str("t2.micro"))
    @@ ("PrivateIpAddress" :> Str("10.0.0.5")) @@ other_fields
inst_B ==
    ("InstanceId" :> Str("i-2")) @@ ("State" :> [Name |-> Str("stopped")])
    @@ ("StateReason" :> [Message |-> Str("User initiated")])
    @@ ("NetworkInterfaces" :> List(<<>>))
inst_C ==
    ("InstanceId" :> Str("i-2")) @@ ("State" :> [Name |-> Str("pending")])
    @@ ("NetworkInterfaces" :> List(<<eni_b>>)) @@ ("Tags" :> List(<<>>))
    @@ ("InstanceType" :> Str("t2.micro"))
inst_no_reason ==
    ("InstanceId" :> Str("i-1")) @@ ("State" :> [Name |-> Str("stopped")])
    @@ ("NetworkInterfaces" :> List(<<eni_a>>))
inst_no_interfaces ==
    ("State" :> [Name |-> Str("running")]) @@ ("InstanceType" :> Str("t2.micro"))

InventoryInstances == {inst_A, inst_B, inst_C, inst_no_reason, inst_no_interfaces}

\* A flat sequence of raw instances cut into reservations: reservation i
\* holds the instances after cut i-1 up to cut i; a reservation may be empty.
Cuts(n, k) ==
    {c \in [1..k -> 0..n] :
        /\ k = 0 => n = 0
        /\ k > 0 => c[k] = n
        /\ \A i \in 1..(k - 1) : c[i] <= c[i + 1]}

Split(flat, c) ==
    [i \in 1..Len(c) |->
        [Instances |-> List(SubSeq(flat, (IF i = 1 THEN 0 ELSE c[i - 1]) + 1, c[i]))]]

\* Every response of at most MaxReservations reservations holding at most
\* MaxInstances raw instances in all.
ProviderReservations ==
    UNION {{List(Split(flat, c)) :
               c \in UNION {Cuts(Len(flat), k) : k \in 0..MaxReservations}} :
           flat \in SeqsUpTo(InventoryInstances, MaxInstances)}

(* -------------------------- specifications ----------------------------- *)

\* One invocation of the command line: a provider, then one command.
Init ==
    /\ Reservations \in ProviderReservations
    /\ region_name \in Regions
    /\ provider_error \in ProviderErrors
    /\ pc = "idle"
    /\ cmd = "none"
    /\ instance_id = "none"
    /\ calls = <<>>
    /\ log = <<>>
    /\ table_data = <<>>
    /\ escaped = FALSE
    /\ exists_result = "none"
    /\ instance_data_dict_list = Return(None)
    /\ raw_instance = EmptyDict
    /\ instance_data_dict = Return(None)
    /\ npc = "off"

Next ==
    \/ get_instances
    \/ \E id \in RequestedIds : start_instance(id)
    \/ \E id \in RequestedIds : stop_instance(id)
    \/ \E id \in RequestedIds : terminate_instance(id)
    \/ \E id \in RequestedIds : exists_validation(id)

Spec == Init /\ [][Next]_vars

\* The record building alone, over every shape of raw instance.
NormInit ==
    /\ raw_instance \in RawInstances
    /\ region_name \in Regions
    /\ instance_data_dict = Return(None)
    /\ npc = "input"
    /\ Reservations = List(<<>>)
    /\ provider_error = NoError
    /\ pc = "off"
    /\ cmd = "none"
    /\ instance_id = "none"
    /\ calls = <<>>
    /\ log = <<>>
    /\ table_data = <<>>
    /\ escaped = FALSE
    /\ exists_result = "none"
    /\ instance_data_dict_list = Return(None)

normalize ==
    /\ npc = "input"
    /\ instance_data_dict' = build_instance_data_dict(raw_instance, region_name)
    /\ npc' = "built"
    /\ UNCHANGED <<Reservations, region_name, provider_error, pc, cmd,
                   instance_id, calls, log, table_data, escaped, exists_result,
                   instance_data_dict_list, raw_instance>>

NormNext == normalize

SpecNorm == NormInit /\ [][NormNext]_vars

(* ----------------------------- properties ------------------------------ *)

MutatingCommands == {"start_instance", "stop_instance", "terminate_instance"}
Commands == MutatingCommands \cup {"get_instances"}
MutationOps == {"start_instances", "stop_instances", "terminate_instances"}

VerbOf(c) ==
    CASE c = "start_instance" -> " - Started"
      [] c = "stop_instance" -> " - Stopped"
      [] c = "terminate_instance" -> " - Terminated"

\* The provider's raw instances, by reservation and position.
ReservationInstances(r) == Reservations[2][r]["Instances"][2]

RECURSIVE InstancesBefore(_)
InstancesBefore(r) ==
    IF r = 1 THEN 0
    ELSE InstancesBefore(r - 1) + Len(ReservationInstances(r - 1))

TotalInstances == InstancesBefore(Len(Reservations[2]) + 1)

InventoryIds ==
    UNION {{ReservationInstances(r)[j]["InstanceId"][2] :
               j \in {i \in DOMAIN ReservationInstances(r) :
                         "InstanceId" \in DOMAIN ReservationInstances(r)[i]}} :
           r \in DOMAIN Reservations[2]}

InfoCount(suffix) ==
    Cardinality({i \in DOMAIN log : log[i].level = "info" /\ log[i].msg[2] = suffix})

ErrorCount == Cardinality({i \in DOMAIN log : log[i].level = "error"})

\* The inventory fetch ran and returned its list.
FetchReturned ==
    /\ pc = "done"
    /\ cmd \in {"get_instances", "exists"}
    /\ ~instance_data_dict_list.raise

Records == instance_data_dict_list.value[2]

\* The record building ran and returned its record.
Built == npc = "built" /\ ~instance_data_dict.raise

Record == instance_data_dict.value

RecordKeys ==
    {"Cloud", "Region", "State", "Id", "Type", "ImageId", "LaunchTime",
     "SubnetId", "VpcId", "PrivateDnsName", "PrivateIpAddress", "PublicDnsName",
     "PublicIpAddress", "RootDeviceName", "RootDeviceType", "SecurityGroups",
     "StateReason", "MacAddress", "NetworkInterfaceId", "Tags"}

\* C1: a mutating command issues its mutation call only after a fetch of the
\* inventory in which the instance id was found, and issues none when the id
\* is not in the inventory.
C1_MutationOnlyAfterFound ==
    (pc = "done" /\ cmd \in MutatingCommands) =>
        /\ \A i \in DOMAIN calls :
              calls[i].op \in MutationOps =>
                  /\ \E j \in 1..(i - 1) : calls[j].op = "describe_instances"
                  /\ instance_id \in InventoryIds
        /\ instance_id \notin InventoryIds =>
              \A i \in DOMAIN calls : calls[i].op \notin MutationOps

\* C2: building a record never raises, whatever optional keys the raw
\* instance lacks, and the field of a missing key is None.
C2_NormalizationTotal ==
    npc = "built" =>
        /\ ~instance_data_dict.raise
        /\ "StateReason" \notin DOMAIN raw_instance => Record["StateReason"] = None
        /\ "NetworkInterfaces" \notin DOMAIN raw_instance =>
              /\ Record["MacAddress"] = None
              /\ Record["NetworkInterfaceId"] = None

\* C3: the existence validation answers true exactly when some fetched record
\* has an Id equal to the requested id, and false on an empty inventory.
C3_ExistsIffSomeRecordHasId ==
    (pc = "done" /\ cmd = "exists") =>
        /\ exists_result = "raised" <=> instance_data_dict_list.raise
        /\ exists_result # "raised" =>
              /\ exists_result = "true" <=>
                    \E k \in DOMAIN Records : Records[k]["Id"] = Str(instance_id)
              /\ Records = <<>> => exists_result = "false"

C3_Witness ==
    /\ pc = "done" /\ cmd = "exists" /\ exists_result = "true"
    /\ Len(Records) >= 2
    /\ Records[1]["Id"] # Str(instance_id)

\* C4: a record of a running or pending instance has no StateReason, even
\* when the raw instance carries one; a record of any other state has the raw
\* StateReason message.
C4_StateReasonRule ==
    Built =>
        LET state_name == raw_instance["State"]["Name"] IN
        /\ state_name \in {Str("running"), Str("pending")} =>
              Record["StateReason"] = None
        /\ (/\ state_name \notin {Str("running"), Str("pending")}
            /\ "StateReason" \in DOMAIN raw_instance) =>
              Record["StateReason"] = raw_instance["StateReason"]["Message"]

C4_Witness ==
    /\ Built
    /\ raw_instance["State"]["Name"] = Str("pending")
    /\ "StateReason" \in DOMAIN raw_instance
    /\ Record["StateReason"] = None

\* C5: with no network interface the record's MacAddress and
\* NetworkInterfaceId are None; with one or more they are those of the first
\* interface.
C5_FirstInterfaceOnly ==
    (Built /\ "NetworkInterfaces" \in DOMAIN raw_instance) =>
        LET interfaces == raw_instance["NetworkInterfaces"][2] IN
        /\ interfaces = <<>> =>
              /\ Record["MacAddress"] = None
              /\ Record["NetworkInterfaceId"] = None
        /\ interfaces # <<>> =>
              /\ "MacAddress" \in DOMAIN interfaces[1]
              /\ Record["MacAddress"] = interfaces[1]["MacAddress"]
              /\ "NetworkInterfaceId" \in DOMAIN interfaces[1]
              /\ Record["NetworkInterfaceId"] = interfaces[1]["NetworkInterfaceId"]

C5_Witness ==
    /\ Built
    /\ "NetworkInterfaces" \in DOMAIN raw_instance
    /\ Len(raw_instance["NetworkInterfaces"][2]) = 2
    /\ raw_instance["NetworkInterfaces"][2][1] = eni_a
    /\ raw_instance["NetworkInterfaces"][2][2] = eni_b
    /\ Record["MacAddress"] = Str("0a:01")

\* C6: the Tags of a record is always a list: the empty list when the raw
\* instance has no Tags key, the raw Tags otherwise.
C6_TagsAlwaysList ==
    Built =>
        /\ Record["Tags"][1] = "list"
        /\ "Tags" \notin DOMAIN raw_instance => Record["Tags"] = List(<<>>)
        /\ "Tags" \in DOMAIN raw_instance => Record["Tags"] = raw_instance["Tags"]

C6_Witness ==
    /\ Built
    /\ "Tags" \notin DOMAIN raw_instance
    /\ Record["Tags"] = List(<<>>)

\* C7: the fetch returns one record per raw instance, the records in the
\* provider's order: reservation by reservation, instance by instance.
C7_OneRecordPerInstanceInOrder ==
    FetchReturned =>
        /\ Len(Records) = TotalInstances
        /\ \A r \in DOMAIN Reservations[2] :
              \A j \in DOMAIN ReservationInstances(r) :
                  Records[InstancesBefore(r) + j] =
                      build_instance_data_dict(ReservationInstances(r)[j],
                                               region_name).value

C7_Witness ==
    /\ FetchReturned
    /\ Len(Reservations[2]) = 2
    /\ ReservationInstances(1) = <<inst_A, inst_B>>
    /\ ReservationInstances(2) = <<inst_C>>
    /\ Len(Records) = 3
    /\ Records[3]["State"] = Str("pending")

\* C8: no exception leaves a command; every invocation logs exactly one of
\* "Finished Successfully" and "Finished with Error"; when the provider call
\* or the record building raised, one error line is logged and neither
\* "Finished Successfully" nor the "<id> - <verb>" message is.
CommandRaised ==
    \/ provider_error # NoError
    \/ cmd = "get_instances" /\ instance_data_dict_list.raise

C8_ErrorsLoggedNotRaised ==
    (pc = "done" /\ cmd \in Commands) =>
        /\ ~escaped
        /\ InfoCount(" - Finished Successfully") + InfoCount(" - Finished with Error") = 1
        /\ CommandRaised =>
              /\ ErrorCount = 1
              /\ InfoCount(" - Finished Successfully") = 0
              /\ cmd \in MutatingCommands =>
                    \A i \in DOMAIN log :
                        log[i].level = "info" => log[i].msg # <<instance_id, VerbOf(cmd)>>
        /\ ~CommandRaised => ErrorCount = 0

C8_Witness ==
    /\ pc = "done" /\ cmd = "get_instances"
    /\ provider_error = NoError
    /\ instance_data_dict_list.raise
    /\ ErrorCount = 1
    /\ InfoCount(" - Finished with Error") = 1

\* C9: a fetch calls describe_instances once; get-instances makes one provider
\* call; a mutating command makes at most two, at most one of them a mutation
\* call, which carries the one given id and is the last call.
C9_ProviderCallsBounded ==
    pc = "done" =>
        /\ cmd \in {"get_instances", "exists"} =>
              Cardinality({i \in DOMAIN calls : calls[i].op = "describe_instances"}) = 1
        /\ cmd = "get_instances" => Len(calls) = 1
        /\ cmd \in MutatingCommands =>
              /\ Len(calls) <= 2
              /\ Cardinality({i \in DOMAIN calls : calls[i].op \in MutationOps}) <= 1
              /\ \A i \in DOMAIN calls :
                    calls[i].op \in MutationOps =>
                        /\ calls[i].InstanceIds = <<instance_id>>
                        /\ i = Len(calls)

C9_Witness ==
    /\ pc = "done" /\ cmd = "stop_instance"
    /\ calls = <<[op |-> "stop_instances", InstanceIds |-> <<instance_id>>]>>

\* C10: every fetched record has the same 20 keys, Cloud "aws" and the
\* client's region; get-instances finds its six columns in every fetched
\* record, a missing raw key giving a None cell.
C10_FixedRecordShape ==
    /\ Cardinality(RecordKeys) = 20
    /\ FetchReturned =>
          \A k \in DOMAIN Records :
              /\ DOMAIN Records[k] = RecordKeys
              /\ Records[k]["Cloud"] = Str("aws")
              /\ Records[k]["Region"] = Str(region_name)
    /\ (FetchReturned /\ cmd = "get_instances") =>
          /\ InfoCount(" - Finished Successfully") = 1
          /\ ErrorCount = 0
          /\ Len(table_data) = Len(Records)
          /\ \A k \in DOMAIN table_data :
                \A h \in DOMAIN headers_list :
                    table_data[k][h] = Records[k][headers_list[h]]
          /\ \A r \in DOMAIN Reservations[2] :
                \A j \in DOMAIN ReservationInstances(r) :
                    \A t \in DOMAIN fields_translation_dict :
                        \A h \in DOMAIN headers_list :
                            (/\ headers_list[h] = fields_translation_dict[t][1]
                             /\ fields_translation_dict[t][2] \notin
                                    DOMAIN ReservationInstances(r)[j]) =>
                                table_data[InstancesBefore(r) + j][h] = None

C10_Witness ==
    /\ FetchReturned /\ cmd = "get_instances"
    /\ Len(Records) >= 1
    /\ ReservationInstances(1) # <<>>
    /\ "InstanceType" \notin DOMAIN ReservationInstances(1)[1]
    /\ table_data[1][3] = None

====
